---- MODULE Spec2Model ----
(***************************************************************************)
(* The import-directive compiler of crates/macros/src/lib.rs: the parser   *)
(* parse_import_stream over a peekable token cursor, its ParseState        *)
(* machine, the section parsers, the namespace normalizer and the path     *)
(* expander, over a fixed filesystem image and the environment.            *)
(*                                                                         *)
(* Text is a sequence of characters, each character a one-character        *)
(* string; a token is a record of its kind and its text as to_string()     *)
(* prints it (a string literal keeps its quotes).                          *)
(***************************************************************************)
EXTENDS Integers, Sequences, FiniteSets, TLC

VARIABLES
    tokens,        \* the TokenStream handed to parse_import_stream
    windir,        \* std::env::var("windir"): NoVar or the value
    pos,           \* number of tokens the cursor has consumed
    state,         \* the ParseState of parse_import_stream
    dependencies,  \* the running BTreeSet<PathBuf> of parse_import_stream
    modules,       \* the running BTreeSet<String> of parse_import_stream
    pc,            \* where the parser is
    section,       \* the local set of the section parser that is running
    path,          \* the PathBuf a `nuget` item is assembling
    sections,      \* the values the section parsers have returned so far
    err,           \* the panic that ended the run, or NoError
    result         \* the pair handed to import, or NoResult

vars == <<tokens, windir, pos, state, dependencies, modules, pc, section,
          path, sections, err, result>>

\* ------------------------------------------------------------------ bounds
MaxLen == 4
MaxText == 3
MaxLiveLen == 2

\* ------------------------------------------------------------- characters
QUOTE == "\""
UNDERSCORE == "_"
COLON == ":"
PERIOD == "."
SEP == "\\"

Upper == <<"A", "B", "C", "D", "E", "F", "G", "H", "I", "J", "K", "L", "M",
           "N", "O", "P", "Q", "R", "S", "T", "U", "V", "W", "X", "Y", "Z">>
Lower == <<"a", "b", "c", "d", "e", "f", "g", "h", "i", "j", "k", "l", "m",
           "n", "o", "p", "q", "r", "s", "t", "u", "v", "w", "x", "y", "z">>

\* U+0130, whose lowercase mapping is the two characters U+0069 U+0307
CapitalIDot == "U+0130"
CombiningDot == "U+0307"

\* char::to_lowercase: an iterator of one or more characters
to_lowercase(c) ==
    IF c = CapitalIDot THEN <<"i", CombiningDot>>
    ELSE IF \E i \in 1..Len(Upper) : Upper[i] = c
         THEN <<Lower[CHOOSE i \in 1..Len(Upper) : Upper[i] = c]>>
         ELSE <<c>>

\* str::trim_matches('"'): every leading and every trailing quote goes
RECURSIVE trim_start(_)
trim_start(s) ==
    IF s # <<>> /\ Head(s) = QUOTE THEN trim_start(Tail(s)) ELSE s

RECURSIVE trim_end(_)
trim_end(s) ==
    IF s # <<>> /\ s[Len(s)] = QUOTE
    THEN trim_end(SubSeq(s, 1, Len(s) - 1)) ELSE s

trim_matches(s) == trim_end(trim_start(s))

\* ----------------------------------------------------------------- tokens
Ident(t) == [kind |-> "Ident", text |-> t]
Literal(t) == [kind |-> "Literal", text |-> t]
Punct(c) == [kind |-> "Punct", text |-> <<c>>]
Group(t) == [kind |-> "Group", text |-> t]

KwDependencies == <<"d", "e", "p", "e", "n", "d", "e", "n", "c", "i", "e", "s">>
KwModules == <<"m", "o", "d", "u", "l", "e", "s">>
KwOs == <<"o", "s">>
KwNuget == <<"n", "u", "g", "e", "t">>
WINMD == <<"w", "i", "n", "m", "d">>
WINMETADATA == <<"w", "i", "n", "m", "e", "t", "a", "d", "a", "t", "a">>
SYSTEM32 == <<"S", "y", "s", "t", "e", "m", "3", "2">>
DOT_NUGET == <<".", "n", "u", "g", "e", "t">>
HOME == <<"H">>

\* ------------------------------------------------------------- filesystem
\* The filesystem image the run reads: the regular files, and the
\* directories with their direct entries.  "open" is what read_dir does:
\* "ok", "fails" (read_dir returns Err) or "entry_fails" (an entry is Err).
Files == {
    <<"m", "\\", "a", ".", "w", "i", "n", "m", "d">>,
    <<"m", "\\", "b", ".", "t", "x", "t">>,
    <<"m", "\\", "s", "\\", "d", "e", "e", "p", ".", "w", "i", "n", "m", "d">>,
    <<"x", ".", "w", "i", "n", "m", "d">>,
    <<"C", ":", "\\", "m", "e", "t", "a", "\\", "a", ".", "w", "i", "n", "m", "d">>,
    <<"C", ":", "\\", "m", "e", "t", "a", "\\", "c", ".", "w", "i", "n", "m", "d">>,
    <<"C", ":", "\\", "m", "e", "t", "a", "\\", "n", ".", "t", "x", "t">>,
    <<"W", "\\", "S", "y", "s", "t", "e", "m", "3", "2", "\\", "w", "i", "n", "m", "e", "t", "a", "d", "a", "t", "a", "\\", "f", ".", "w", "i", "n", "m", "d">>,
    <<"H", "\\", ".", "n", "u", "g", "e", "t", "\\", "p", "k", "g", "\\", "p", ".", "w", "i", "n", "m", "d">>,
    <<"H", "\\", ".", "n", "u", "g", "e", "t", "\\", "M", "i", "c", "r", "o", "s", "o", "f", "t", "\\", "W", "i", "n", "d", "o", "w", "s", "\\", "S", "D", "K", "\\", "C", "o", "n", "t", "r", "a", "c", "t", "s", "\\", "s", "d", "k", ".", "w", "i", "n", "m", "d">>,
    <<"t", "\\", "n", ".", "t", "x", "t">> }

Dir(open, names) == [open |-> open, names |-> names]

Dirs ==
    (<<"m">> :> Dir("ok", {<<"a", ".", "w", "i", "n", "m", "d">>, <<"b", ".", "t", "x", "t">>, <<"s">>, <<"d", ".", "w", "i", "n", "m", "d">>}))
 @@ (<<"m", "\\", "s">> :> Dir("ok", {<<"d", "e", "e", "p", ".", "w", "i", "n", "m", "d">>}))
 @@ (<<"m", "\\", "d", ".", "w", "i", "n", "m", "d">> :> Dir("ok", {}))
 @@ (<<"u">> :> Dir("fails", {}))
 @@ (<<"e">> :> Dir("entry_fails", {}))
 @@ (<<"t">> :> Dir("ok", {<<"n", ".", "t", "x", "t">>}))
 @@ (<<"C", ":", "\\", "m", "e", "t", "a">> :> Dir("ok", {<<"a", ".", "w", "i", "n", "m", "d">>, <<"c", ".", "w", "i", "n", "m", "d">>, <<"n", ".", "t", "x", "t">>}))
 @@ (<<"W", "\\", "S", "y", "s", "t", "e", "m", "3", "2", "\\", "w", "i", "n", "m", "e", "t", "a", "d", "a", "t", "a">> :> Dir("ok", {<<"f", ".", "w", "i", "n", "m", "d">>}))
 @@ (<<"H", "\\", ".", "n", "u", "g", "e", "t", "\\", "p", "k", "g">> :> Dir("ok", {<<"p", ".", "w", "i", "n", "m", "d">>}))
 @@ (<<"H", "\\", ".", "n", "u", "g", "e", "t", "\\", "M", "i", "c", "r", "o", "s", "o", "f", "t", "\\", "W", "i", "n", "d", "o", "w", "s", "\\", "S", "D", "K", "\\", "C", "o", "n", "t", "r", "a", "c", "t", "s">> :> Dir("ok", {<<"s", "d", "k", ".", "w", "i", "n", "m", "d">>}))

is_file(p) == p \in Files
is_dir(p) == p \in DOMAIN Dirs

\* PathBuf::push of a relative component
push(p, c) ==
    IF p = <<>> THEN c
    ELSE IF p[Len(p)] = SEP THEN p \o c
    ELSE p \o <<SEP>> \o c

\* Path::file_name: the characters after the last separator
file_name(p) ==
    LET seps == {i \in 1..Len(p) : p[i] = SEP}
    IN  IF seps = {} THEN p
        ELSE SubSeq(p, (CHOOSE i \in seps : \A j \in seps : j <= i) + 1, Len(p))

NoExtension == <<"None">>

\* Path::extension: the part of the file name after its last period, None
\* when there is no period or the only period starts the name
extension(p) ==
    LET f == file_name(p)
        dots == {i \in 1..Len(f) : f[i] = PERIOD}
        last == CHOOSE i \in dots : \A j \in dots : j <= i
    IN  IF dots = {} THEN NoExtension
        ELSE IF last = 1 THEN NoExtension
        ELSE <<"Some", SubSeq(f, last + 1, Len(f))>>

\* ------------------------------------------------------------ normalizer
\* mutants: the first and the last character are taken for the quotes;
\* periods are dropped as well; underscores are kept
RECURSIVE lowercase_without_underscores(_)
lowercase_without_underscores(s) ==
    IF s = <<>> THEN <<>>
    ELSE IF Head(s) = UNDERSCORE THEN lowercase_without_underscores(Tail(s))
    ELSE to_lowercase(Head(s)) \o lowercase_without_underscores(Tail(s))

namespace_literal_by_position(namespace) ==
    IF Len(namespace) < 2 THEN <<>>
    ELSE lowercase_without_underscores(SubSeq(namespace, 2, Len(namespace) - 1))

RECURSIVE namespace_literal_dropping_periods(_)
namespace_literal_dropping_periods(namespace) ==
    IF namespace = <<>> THEN <<>>
    ELSE IF Head(namespace) \in {QUOTE, UNDERSCORE, PERIOD}
    THEN namespace_literal_dropping_periods(Tail(namespace))
    ELSE to_lowercase(Head(namespace)) \o namespace_literal_dropping_periods(Tail(namespace))

RECURSIVE namespace_literal_keeping_underscores(_)
namespace_literal_keeping_underscores(namespace) ==
    IF namespace = <<>> THEN <<>>
    ELSE IF Head(namespace) = QUOTE
    THEN namespace_literal_keeping_underscores(Tail(namespace))
    ELSE to_lowercase(Head(namespace)) \o namespace_literal_keeping_underscores(Tail(namespace))

\* namespace_literal_to_rough_namespace: quotes and underscores dropped,
\* every other character lowercased, order kept
RECURSIVE namespace_literal_to_rough_namespace(_)
namespace_literal_to_rough_namespace(namespace) ==
    IF namespace = <<>> THEN <<>>
    ELSE LET c == Head(namespace)
             rest == namespace_literal_to_rough_namespace(Tail(namespace))
         IN  IF c # QUOTE /\ c # UNDERSCORE THEN to_lowercase(c) \o rest
             ELSE rest

\* ---------------------------------------------------------- path expander
NoText == <<"<none>">>
NoError == [kind |-> "None", text |-> NoText]
Error(kind, text) == [kind |-> kind, text |-> text]

Expanded(set) == [ok |-> TRUE, set |-> set, err |-> NoError]
ExpandFailed(kind, text) == [ok |-> FALSE, set |-> {}, err |-> Error(kind, text)]

\* mutant: every entry of a directory with the extension, a file or not
expand_paths_any_entry(dependency) ==
    IF is_dir(dependency) THEN
        IF Dirs[dependency].open = "fails"
        THEN ExpandFailed("ReadDir", dependency)
        ELSE IF Dirs[dependency].open = "entry_fails"
        THEN ExpandFailed("DirEntry", NoText)
        ELSE Expanded({p \in {push(dependency, n) : n \in Dirs[dependency].names} :
                          extension(p) = <<"Some", WINMD>>})
    ELSE IF is_file(dependency) /\ extension(dependency) = <<"Some", WINMD>>
    THEN Expanded({dependency})
    ELSE ExpandFailed("NotFileOrDir", dependency)

\* mutant: a directory without descriptor files is refused
expand_paths_refusing_empty(dependency) ==
    IF is_dir(dependency) THEN
        IF Dirs[dependency].open = "fails"
        THEN ExpandFailed("ReadDir", dependency)
        ELSE IF Dirs[dependency].open = "entry_fails"
        THEN ExpandFailed("DirEntry", NoText)
        ELSE LET found == {p \in {push(dependency, n) : n \in Dirs[dependency].names} :
                              is_file(p) /\ extension(p) = <<"Some", WINMD>>}
             IN  IF found = {} THEN ExpandFailed("NotFileOrDir", dependency)
                 ELSE Expanded(found)
    ELSE IF is_file(dependency) /\ extension(dependency) = <<"Some", WINMD>>
    THEN Expanded({dependency})
    ELSE ExpandFailed("NotFileOrDir", dependency)

\* mutant: a regular file is taken whatever its extension
expand_paths_any_file(dependency) ==
    IF is_dir(dependency) THEN
        IF Dirs[dependency].open = "fails"
        THEN ExpandFailed("ReadDir", dependency)
        ELSE IF Dirs[dependency].open = "entry_fails"
        THEN ExpandFailed("DirEntry", NoText)
        ELSE Expanded({p \in {push(dependency, n) : n \in Dirs[dependency].names} :
                          is_file(p) /\ extension(p) = <<"Some", WINMD>>})
    ELSE IF is_file(dependency)
    THEN Expanded({dependency})
    ELSE ExpandFailed("NotFileOrDir", dependency)

\* expand_paths: a directory gives its direct entries that are regular
\* files with the winmd extension, a winmd file gives itself, anything else
\* panics
expand_paths(dependency) ==
    IF is_dir(dependency) THEN
        IF Dirs[dependency].open = "fails"
        THEN ExpandFailed("ReadDir", dependency)
        ELSE IF Dirs[dependency].open = "entry_fails"
        THEN ExpandFailed("DirEntry", NoText)
        ELSE Expanded({p \in {push(dependency, n) : n \in Dirs[dependency].names} :
                          is_file(p) /\ extension(p) = <<"Some", WINMD>>})
    ELSE IF is_file(dependency) /\ extension(dependency) = <<"Some", WINMD>>
    THEN Expanded({dependency})
    ELSE ExpandFailed("NotFileOrDir", dependency)

\* ------------------------------------------------------------ ParseState
ParseStates == {"Neither", "ParsedNamespace", "ParsedDependency", "Both"}

\* mutants: Neither goes straight to Both; ParsedDependency is left as it is
parsed_namespace_eager(self) ==
    CASE self = "Neither" -> "Both"
      [] self = "ParsedDependency" -> "Both"
      [] OTHER -> self

parsed_namespace_forgetful(self) ==
    CASE self = "Neither" -> "ParsedNamespace"
      [] OTHER -> self

parsed_namespace(self) ==
    CASE self = "Neither" -> "ParsedNamespace"
      [] self = "ParsedDependency" -> "Both"
      [] OTHER -> self

\* mutants: Neither goes straight to Both; ParsedNamespace is forgotten
parsed_dependency_eager(self) ==
    CASE self = "Neither" -> "Both"
      [] self = "ParsedNamespace" -> "Both"
      [] OTHER -> self

parsed_dependency_resetting(self) ==
    CASE self = "Neither" -> "ParsedDependency"
      [] self = "ParsedNamespace" -> "ParsedDependency"
      [] OTHER -> self

parsed_dependency(self) ==
    CASE self = "Neither" -> "ParsedDependency"
      [] self = "ParsedNamespace" -> "Both"
      [] OTHER -> self

\* ---------------------------------------------------------------- cursor
NoToken == [kind |-> "None", text |-> NoText]

\* Peekable::peek: the next token, not consumed
peek(stream, p) == IF p < Len(stream) THEN stream[p + 1] ELSE NoToken

\* the cursor after Iterator::next
advance(stream, p) == IF p < Len(stream) THEN p + 1 ELSE p

IsPunct(t, c) == t.kind = "Punct" /\ t.text = <<c>>
IsIdent(t, text) == t.kind = "Ident" /\ t.text = text

\* ------------------------------------------------------ category classifier
\* mutant: any punctuation after the keyword is taken for the separator
parse_category_any_punct(stream, p) ==
    LET token == peek(stream, p)
        after == advance(stream, p)
        category == IF token.text = KwDependencies THEN "Dependency" ELSE "Namespace"
    IN  IF token = NoToken
        THEN [ok |-> FALSE, category |-> "None", pos |-> after,
              err |-> Error("UnexpectedEnd", NoText)]
        ELSE IF token.kind = "Ident"
        THEN IF token.text \notin {KwDependencies, KwModules}
             THEN [ok |-> FALSE, category |-> "None", pos |-> after,
                   err |-> Error("UnknownKeyword", token.text)]
             ELSE [ok |-> TRUE, category |-> category,
                   pos |-> IF peek(stream, after).kind = "Punct"
                           THEN advance(stream, after) ELSE after,
                   err |-> NoError]
        ELSE [ok |-> FALSE, category |-> "None", pos |-> after,
              err |-> Error("UnrecognizedToken", token.text)]

\* mutant: the unknown-keyword error leaves the keyword out
parse_category_citing_nothing(stream, p) ==
    LET token == peek(stream, p)
        after == advance(stream, p)
        category == IF token.text = KwDependencies THEN "Dependency" ELSE "Namespace"
    IN  IF token = NoToken
        THEN [ok |-> FALSE, category |-> "None", pos |-> after,
              err |-> Error("UnexpectedEnd", NoText)]
        ELSE IF token.kind = "Ident"
        THEN IF token.text \notin {KwDependencies, KwModules}
             THEN [ok |-> FALSE, category |-> "None", pos |-> after,
                   err |-> Error("UnknownKeyword", NoText)]
             ELSE [ok |-> TRUE, category |-> category,
                   pos |-> IF IsPunct(peek(stream, after), COLON)
                           THEN advance(stream, after) ELSE after,
                   err |-> NoError]
        ELSE [ok |-> FALSE, category |-> "None", pos |-> after,
              err |-> Error("UnrecognizedToken", token.text)]

\* parse_category: the keyword, then an optional ':'
parse_category(stream, p) ==
    LET token == peek(stream, p)
        after == advance(stream, p)
        category == IF token.text = KwDependencies THEN "Dependency" ELSE "Namespace"
    IN  IF token = NoToken
        THEN [ok |-> FALSE, category |-> "None", pos |-> after,
              err |-> Error("UnexpectedEnd", NoText)]
        ELSE IF token.kind = "Ident"
        THEN IF token.text \notin {KwDependencies, KwModules}
             THEN [ok |-> FALSE, category |-> "None", pos |-> after,
                   err |-> Error("UnknownKeyword", token.text)]
             ELSE [ok |-> TRUE, category |-> category,
                   pos |-> IF IsPunct(peek(stream, after), COLON)
                           THEN advance(stream, after) ELSE after,
                   err |-> NoError]
        ELSE [ok |-> FALSE, category |-> "None", pos |-> after,
              err |-> Error("UnrecognizedToken", token.text)]

\* ---------------------------------------------------- namespace section
\* mutant: the literal's own text is inserted next to its key
namespace_item_keeping_text(stream, p, set) ==
    LET token == peek(stream, p)
    IN  IF token.kind = "Literal"
        THEN [more |-> TRUE, pos |-> advance(stream, p),
              set |-> set \cup {token.text,
                                namespace_literal_to_rough_namespace(token.text)}]
        ELSE [more |-> FALSE, pos |-> p, set |-> set]

\* mutant: the token that ends the section is consumed
namespace_item_consuming_stop(stream, p, set) ==
    LET token == peek(stream, p)
    IN  IF token.kind = "Literal"
        THEN [more |-> TRUE, pos |-> advance(stream, p),
              set |-> set \cup {namespace_literal_to_rough_namespace(token.text)}]
        ELSE [more |-> FALSE, pos |-> advance(stream, p), set |-> set]

\* one iteration of the loop of parse_namespace
namespace_item(stream, p, set) ==
    LET token == peek(stream, p)
    IN  IF token.kind = "Literal"
        THEN [more |-> TRUE, pos |-> advance(stream, p),
              set |-> set \cup {namespace_literal_to_rough_namespace(token.text)}]
        ELSE [more |-> FALSE, pos |-> p, set |-> set]

RECURSIVE namespace_loop(_, _, _)
namespace_loop(stream, p, set) ==
    LET r == namespace_item(stream, p, set)
    IN  IF r.more THEN namespace_loop(stream, r.pos, r.set)
        ELSE [set |-> r.set, pos |-> r.pos]

parse_namespace(stream, p) == namespace_loop(stream, p, {})

\* --------------------------------------------------- dependency section
NoVar == <<"<unset>">>
NoPath == <<>>

\* the path of the `os` item: windir, SYSTEM32, "winmetadata"
os_path(wind_dir_env) == push(push(push(<<>>, wind_dir_env), SYSTEM32), WINMETADATA)

\* the root of the `nuget` item: HOME, ".nuget"
nuget_root == push(HOME, DOT_NUGET)

Item(status, p, set, pth, e) ==
    [status |-> status, pos |-> p, set |-> set, path |-> pth, err |-> e]

\* dependencies.append(&mut expand_paths(..)) followed by what the arm does
\* next; a panic in expand_paths ends the item
append_expanded(p, set, candidate) ==
    LET r == expand_paths(candidate)
    IN  IF r.ok THEN Item("more", p, set \cup r.set, NoPath, NoError)
        ELSE Item("fail", p, set, NoPath, r.err)

\* mutants: `nuget` goes on without its colon; a literal is left in the cursor
dependency_item_optional_colon(stream, p, set, env) ==
    LET token == peek(stream, p)
        colon == peek(stream, advance(stream, p))
        afterColon == advance(stream, advance(stream, p))
    IN  IF token.kind = "Literal"
        THEN LET r == append_expanded(p, set, trim_matches(token.text))
             IN  IF r.status = "more" THEN [r EXCEPT !.pos = advance(stream, p)]
                 ELSE r
        ELSE IF IsIdent(token, KwOs)
        THEN IF env = NoVar
             THEN Item("fail", p, set, NoPath, Error("NoWindir", NoText))
             ELSE LET r == append_expanded(p, set, os_path(env))
                  IN  IF r.status = "more" THEN [r EXCEPT !.pos = advance(stream, p)]
                      ELSE r
        ELSE IF IsIdent(token, KwNuget)
        THEN IF IsPunct(colon, COLON)
             THEN Item("nuget", afterColon, set, nuget_root, NoError)
             ELSE Item("nuget", advance(stream, p), set, nuget_root, NoError)
        ELSE Item("break", p, set, NoPath, NoError)

dependency_item_not_consuming(stream, p, set, env) ==
    LET token == peek(stream, p)
        colon == peek(stream, advance(stream, p))
        afterColon == advance(stream, advance(stream, p))
    IN  IF token.kind = "Literal"
        THEN append_expanded(p, set, trim_matches(token.text))
        ELSE IF IsIdent(token, KwOs)
        THEN IF env = NoVar
             THEN Item("fail", p, set, NoPath, Error("NoWindir", NoText))
             ELSE LET r == append_expanded(p, set, os_path(env))
                  IN  IF r.status = "more" THEN [r EXCEPT !.pos = advance(stream, p)]
                      ELSE r
        ELSE IF IsIdent(token, KwNuget)
        THEN IF IsPunct(colon, COLON)
             THEN Item("nuget", afterColon, set, nuget_root, NoError)
             ELSE Item("fail", afterColon, set, NoPath, Error("NugetColon", NoText))
        ELSE Item("break", p, set, NoPath, NoError)

\* one iteration of the loop of parse_dependencies, up to the start of the
\* segment loop of a `nuget` item
dependency_item(stream, p, set, env) ==
    LET token == peek(stream, p)
        colon == peek(stream, advance(stream, p))
        afterColon == advance(stream, advance(stream, p))
    IN  IF token.kind = "Literal"
        THEN LET r == append_expanded(p, set, trim_matches(token.text))
             IN  IF r.status = "more" THEN [r EXCEPT !.pos = advance(stream, p)]
                 ELSE r
        ELSE IF IsIdent(token, KwOs)
        THEN IF env = NoVar
             THEN Item("fail", p, set, NoPath, Error("NoWindir", NoText))
             ELSE LET r == append_expanded(p, set, os_path(env))
                  IN  IF r.status = "more" THEN [r EXCEPT !.pos = advance(stream, p)]
                      ELSE r
        ELSE IF IsIdent(token, KwNuget)
        THEN IF IsPunct(colon, COLON)
             THEN Item("nuget", afterColon, set, nuget_root, NoError)
             ELSE Item("fail", afterColon, set, NoPath, Error("NugetColon", NoText))
        ELSE Item("break", p, set, NoPath, NoError)

\* mutant: the segments make one component, joined by their periods
nuget_segment_flat(stream, p, set, pth) ==
    LET name == peek(stream, p)
        after == advance(stream, p)
        joined == IF pth = nuget_root THEN push(pth, name.text)
                  ELSE pth \o <<PERIOD>> \o name.text
    IN  IF name = NoToken
        THEN Item("fail", after, set, pth, Error("NugetEnd", NoText))
        ELSE IF name.kind # "Ident"
        THEN Item("fail", after, set, pth, Error("NugetSegment", NoText))
        ELSE IF IsPunct(peek(stream, after), PERIOD)
        THEN Item("nuget", advance(stream, after), set, joined, NoError)
        ELSE append_expanded(after, set, joined)

\* one iteration of the segment loop of a `nuget` item: a segment, and the
\* period if one follows; after the last segment the path is expanded
nuget_segment(stream, p, set, pth) ==
    LET name == peek(stream, p)
        after == advance(stream, p)
    IN  IF name = NoToken
        THEN Item("fail", after, set, pth, Error("NugetEnd", NoText))
        ELSE IF name.kind # "Ident"
        THEN Item("fail", after, set, pth, Error("NugetSegment", NoText))
        ELSE IF IsPunct(peek(stream, after), PERIOD)
        THEN Item("nuget", advance(stream, after), set, push(pth, name.text), NoError)
        ELSE append_expanded(after, set, push(pth, name.text))

RECURSIVE dependency_loop(_, _, _, _, _, _)
dependency_loop(stream, p, set, pth, inNuget, env) ==
    LET r == IF inNuget THEN nuget_segment(stream, p, set, pth)
             ELSE dependency_item(stream, p, set, env)
    IN  CASE r.status = "more" -> dependency_loop(stream, r.pos, r.set, NoPath, FALSE, env)
          [] r.status = "nuget" -> dependency_loop(stream, r.pos, r.set, r.path, TRUE, env)
          [] r.status = "break" -> [ok |-> TRUE, set |-> r.set, pos |-> r.pos, err |-> NoError]
          [] r.status = "fail" -> [ok |-> FALSE, set |-> r.set, pos |-> r.pos, err |-> r.err]

parse_dependencies(stream, p, env) == dependency_loop(stream, p, {}, NoPath, FALSE, env)

\* ------------------------------------------------------ directive compiler
NoResult == <<"<panicked>">>

Returned(deps, mods) == [ok |-> TRUE, dependencies |-> deps, modules |-> mods, err |-> NoError]
Panicked(e) == [ok |-> FALSE, dependencies |-> {}, modules |-> {}, err |-> e]

\* mutant: the section replaces the running set
extend_replacing(self, iter) == iter

\* BTreeSet::extend, as parse_import_stream folds a section into its set
extend(self, iter) == self \cup iter

\* the loop of parse_import_stream, run to its end
RECURSIVE import_loop(_, _, _, _, _, _)
import_loop(stream, p, st, deps, mods, env) ==
    IF st = "Both"
    THEN IF peek(stream, p) = NoToken THEN Returned(deps, mods)
         ELSE Panicked(Error("TrailingInput", peek(stream, p).text))
    ELSE LET c == parse_category(stream, p)
             n == parse_namespace(stream, c.pos)
             d == parse_dependencies(stream, c.pos, env)
         IN  IF ~c.ok THEN Panicked(c.err)
             ELSE IF c.category = "Namespace"
             THEN import_loop(stream, n.pos, parsed_namespace(st), deps, extend(mods, n.set), env)
             ELSE IF ~d.ok THEN Panicked(d.err)
             ELSE import_loop(stream, d.pos, parsed_dependency(st), extend(deps, d.set), mods, env)

parse_import_stream(stream, env) == import_loop(stream, 0, "Neither", {}, {}, env)

\* ----------------------------------------------------------------- inputs
TDependencies == Ident(KwDependencies)
TModules == Ident(KwModules)
TOs == Ident(KwOs)
TNuget == Ident(KwNuget)
TPkg == Ident(<<"p", "k", "g">>)
TExtra == Ident(<<"e", "x", "t", "r", "a", "_", "t", "o", "k", "e", "n">>)
TColon == Punct(COLON)
TPeriod == Punct(PERIOD)
TGroup == Group(<<"(", ")">>)
LitDir == Literal(<<"\"", "m", "\"">>)
LitFile == Literal(<<"\"", "m", "\\", "a", ".", "w", "i", "n", "m", "d", "\"">>)
LitMissing == Literal(<<"\"", "F", "o", "o", "_", "B", "a", "r", "\"">>)
LitUnreadable == Literal(<<"\"", "u", "\"">>)
LitTxt == Literal(<<"\"", "m", "\\", "b", ".", "t", "x", "t", "\"">>)
LitEntryFails == Literal(<<"\"", "e", "\"">>)
LitNoDescriptors == Literal(<<"\"", "t", "\"">>)
LitX == Literal(<<"\"", "x", ".", "w", "i", "n", "m", "d", "\"">>)
LitMetaA == Literal(<<"\"", "C", ":", "\\", "m", "e", "t", "a", "\\", "a", ".", "w", "i", "n", "m", "d", "\"">>)
LitMeta == Literal(<<"\"", "C", ":", "\\", "m", "e", "t", "a", "\"">>)
LitWindowsFoundation == Literal(<<"\"", "W", "i", "n", "d", "o", "w", "s", ".", "F", "o", "u", "n", "d", "a", "t", "i", "o", "n", "\"">>)

Alphabet == {TDependencies, TModules, TOs, TNuget, TPkg, TColon, TPeriod,
             TGroup, LitDir, LitFile, LitMissing, LitUnreadable}

\* every token sequence of at most MaxLen tokens
FreeInputs == UNION {[1..n -> Alphabet] : n \in 0..MaxLen}

ScenarioA == <<TDependencies, TColon, LitMetaA, LitMeta, TModules, TColon,
               LitWindowsFoundation>>
ScenarioB == <<TModules, TColon, LitMissing>>
ScenarioC == <<TDependencies, TColon, TNuget, TColon, Ident(<<"M", "i", "c", "r", "o", "s", "o", "f", "t">>),
               TPeriod, Ident(<<"W", "i", "n", "d", "o", "w", "s">>), TPeriod, Ident(<<"S", "D", "K">>), TPeriod,
               Ident(<<"C", "o", "n", "t", "r", "a", "c", "t", "s">>)>>
ScenarioD == <<TDependencies, TColon, LitX, TExtra>>
ScenarioE == <<TModules, TDependencies, LitNoDescriptors>>
ScenarioBWithDependencies == <<TModules, TColon, LitMissing, TDependencies>>
ScenarioCWithModules == ScenarioC \o <<TModules>>

AllThreeForms == <<TDependencies, LitDir, TOs, TNuget, TColon, TPkg, TModules>>

ScenarioInputs == {
    ScenarioA, ScenarioB, ScenarioC, ScenarioD, ScenarioE,
    ScenarioBWithDependencies, ScenarioCWithModules,
    <<TModules, LitMissing, TModules, LitDir, TDependencies, TOs, LitFile>>,
    <<TDependencies, LitFile, TDependencies, LitMeta, TModules, LitMissing, LitMissing>>,
    <<TModules, LitMissing, TModules, LitMissing, TDependencies, LitFile, LitFile>>,
    <<TModules, LitDir, TDependencies, TNuget, TColon, TPkg, TModules>>,
    <<TDependencies, LitFile, LitEntryFails, TModules>>,
    <<TDependencies, LitFile, LitTxt, TModules>>,
    <<TDependencies, TNuget, TColon, TPkg, TPeriod, TPkg, TModules>>,
    AllThreeForms }

\* the characters the literal texts of the normalizer inputs are made of
TextChars == {QUOTE, UNDERSCORE, PERIOD, "A", "a", CapitalIDot}
Texts == UNION {[1..n -> TextChars] : n \in 0..MaxText}

\* a modules section of one literal of any text, then a dependencies section
TextInputs == {<<TModules, Literal(s), TDependencies>> : s \in Texts}

Inputs == FreeInputs \cup ScenarioInputs \cup TextInputs

WindirValues == {NoVar, <<"W">>}

\* ------------------------------------------------------------ the parser
Init ==
    /\ tokens \in Inputs
    /\ windir \in WindirValues
    /\ pos = 0
    /\ state = "Neither"
    /\ dependencies = {}
    /\ modules = {}
    /\ pc = "loop"
    /\ section = {}
    /\ path = NoPath
    /\ sections = <<>>
    /\ err = NoError
    /\ result = NoResult

\* mutant: a panic hands what has been accumulated to the caller
Panic_with_partial_sets(e) ==
    /\ pc' = "failed"
    /\ err' = e
    /\ result' = <<dependencies, modules>>

\* a panic unwinds through parse_import_stream and import: no pair is returned
Panic(e) ==
    /\ pc' = "failed"
    /\ err' = e
    /\ result' = NoResult

\* mutant: with the state Both the pair is returned whatever remains
EndOfInput_ignoring_rest ==
    /\ pc = "loop"
    /\ state = "Both"
    /\ pos' = pos
    /\ pc' = "returned"
    /\ result' = <<dependencies, modules>>
    /\ UNCHANGED <<tokens, windir, state, dependencies, modules, section,
                   path, sections, err>>

\* state == Both: the next token must not exist; then the pair is returned
EndOfInput ==
    /\ pc = "loop"
    /\ state = "Both"
    /\ pos' = advance(tokens, pos)
    /\ IF peek(tokens, pos) = NoToken
       THEN /\ pc' = "returned"
            /\ result' = <<dependencies, modules>>
            /\ err' = err
       ELSE Panic(Error("TrailingInput", peek(tokens, pos).text))
    /\ UNCHANGED <<tokens, windir, state, dependencies, modules, section,
                   path, sections>>

\* parse_category, and the dispatch on the category
Category ==
    /\ pc = "loop"
    /\ state # "Both"
    /\ \E c \in {parse_category(tokens, pos)} :
           /\ pos' = c.pos
           /\ IF c.ok
              THEN /\ pc' = IF c.category = "Namespace" THEN "namespace"
                            ELSE "dependencies"
                   /\ UNCHANGED <<err, result>>
              ELSE Panic(c.err)
    /\ section' = {}
    /\ UNCHANGED <<tokens, windir, state, dependencies, modules, path,
                   sections>>

\* parse_namespace: the next token is a literal
NamespaceItem ==
    /\ pc = "namespace"
    /\ \E r \in {namespace_item(tokens, pos, section)} :
           /\ r.more
           /\ pos' = r.pos
           /\ section' = r.set
    /\ UNCHANGED <<tokens, windir, state, dependencies, modules, pc, path,
                   sections, err, result>>

\* parse_namespace breaks and returns; the section is folded in
NamespaceEnd ==
    /\ pc = "namespace"
    /\ \E r \in {namespace_item(tokens, pos, section)} :
           /\ ~r.more
           /\ pos' = r.pos
           /\ modules' = extend(modules, r.set)
           /\ sections' = Append(sections, [category |-> "Namespace", set |-> r.set])
    /\ state' = parsed_namespace(state)
    /\ pc' = "loop"
    /\ section' = {}
    /\ UNCHANGED <<tokens, windir, dependencies, path, err, result>>

\* parse_dependencies: the next token starts an item
DependencyItem ==
    /\ pc = "dependencies"
    /\ \E r \in {dependency_item(tokens, pos, section, windir)} :
           /\ r.status # "break"
           /\ pos' = r.pos
           /\ section' = r.set
           /\ path' = r.path
           /\ CASE r.status = "more" -> UNCHANGED <<pc, err, result>>
                [] r.status = "nuget" -> pc' = "nuget" /\ UNCHANGED <<err, result>>
                [] r.status = "fail" -> Panic(r.err)
    /\ UNCHANGED <<tokens, windir, state, dependencies, modules, sections>>

\* the segment loop of a `nuget` item, one segment
NugetSegment ==
    /\ pc = "nuget"
    /\ \E r \in {nuget_segment(tokens, pos, section, path)} :
           /\ pos' = r.pos
           /\ section' = r.set
           /\ path' = r.path
           /\ CASE r.status = "nuget" -> UNCHANGED <<pc, err, result>>
                [] r.status = "more" -> pc' = "dependencies" /\ UNCHANGED <<err, result>>
                [] r.status = "fail" -> Panic(r.err)
    /\ UNCHANGED <<tokens, windir, state, dependencies, modules, sections>>

\* parse_dependencies breaks and returns; the section is folded in
DependencyEnd ==
    /\ pc = "dependencies"
    /\ \E r \in {dependency_item(tokens, pos, section, windir)} :
           /\ r.status = "break"
           /\ pos' = r.pos
           /\ dependencies' = extend(dependencies, r.set)
           /\ sections' = Append(sections, [category |-> "Dependency", set |-> r.set])
    /\ state' = parsed_dependency(state)
    /\ pc' = "loop"
    /\ section' = {}
    /\ UNCHANGED <<tokens, windir, modules, path, err, result>>

Next ==
    \/ EndOfInput
    \/ Category
    \/ NamespaceItem
    \/ NamespaceEnd
    \/ DependencyItem
    \/ NugetSegment
    \/ DependencyEnd

Spec == Init /\ [][Next]_vars

\* the inputs of the runs followed to their end: the scenarios and every
\* token sequence of at most MaxLiveLen tokens
LiveInputs == ScenarioInputs \cup UNION {[1..n -> Alphabet] : n \in 0..MaxLiveLen}

LiveInit ==
    /\ tokens \in LiveInputs
    /\ windir \in WindirValues
    /\ pos = 0
    /\ state = "Neither"
    /\ dependencies = {}
    /\ modules = {}
    /\ pc = "loop"
    /\ section = {}
    /\ path = NoPath
    /\ sections = <<>>
    /\ err = NoError
    /\ result = NoResult

\* the parser is straight-line code on one thread: while a step is possible
\* it is taken
FairSpec == LiveInit /\ [][Next]_vars /\ WF_vars(Next)


\* ================================================================= claims
Final == pc \in {"returned", "failed"}

SectionsOf(category) == {i \in 1..Len(sections) : sections[i].category = category}

LacksACategory ==
    \/ \A i \in 1..Len(tokens) : tokens[i] # TDependencies
    \/ \A i \in 1..Len(tokens) : tokens[i] # TModules

\* C1: parse_import_stream returns only with ParseState Both, after at
\* least one dependencies section and at least one modules section have been
\* parsed; a run on an input that lacks one of the two keywords, the empty
\* input included, never returns a pair: if it ends, it ends in failure.
C1_ReturnsOnlyWhenBoth ==
    /\ pc = "returned" =>
          /\ state = "Both"
          /\ SectionsOf("Dependency") # {}
          /\ SectionsOf("Namespace") # {}
          /\ \E i \in 1..Len(tokens) : tokens[i] = TDependencies
          /\ \E i \in 1..Len(tokens) : tokens[i] = TModules
    /\ result # NoResult => pc = "returned"
    /\ (LacksACategory /\ Final) => pc = "failed" /\ result = NoResult

C1_Witness ==
    /\ pc = "returned"
    /\ state = "Both"
    /\ result[1] # {}
    /\ result[2] # {}

\* C2: with the state Both a remaining token, a section keyword included,
\* makes the next step fail with the trailing-input error citing that
\* token's text; a run that returns has consumed every token.
C2_NoTrailingInput ==
    [][ /\ (pc = "loop" /\ state = "Both" /\ pos < Len(tokens)) =>
              /\ pc' = "failed"
              /\ err' = Error("TrailingInput", tokens[pos + 1].text)
              /\ result' = NoResult
        /\ pc' = "returned" => pos' = Len(tokens) /\ peek(tokens, pos') = NoToken
      ]_vars

C2_Witness ==
    /\ pc = "failed"
    /\ err = Error("TrailingInput", KwModules)
    /\ state = "Both"
    /\ tokens[pos] = TModules

\* the shape `modules [:] N dependencies [:] D` of a directive, N a
\* namespace body and D a dependency body of the grammar
AfterColon(t, i) == IF i <= Len(t) /\ IsPunct(t[i], COLON) THEN i + 1 ELSE i

RECURSIVE IsDependencyBody(_, _, _)
IsDependencyBody(t, i, inNuget) ==
    IF inNuget
    THEN /\ i <= Len(t)
         /\ t[i].kind = "Ident"
         /\ IF i + 1 <= Len(t) /\ IsPunct(t[i + 1], PERIOD)
            THEN IsDependencyBody(t, i + 2, TRUE)
            ELSE IsDependencyBody(t, i + 1, FALSE)
    ELSE IF i > Len(t) THEN TRUE
    ELSE IF t[i].kind = "Literal" \/ t[i] = TOs THEN IsDependencyBody(t, i + 1, FALSE)
    ELSE IF t[i] = TNuget
    THEN i + 1 <= Len(t) /\ IsPunct(t[i + 1], COLON) /\ IsDependencyBody(t, i + 2, TRUE)
    ELSE FALSE

NamespaceBodyStart(t) == AfterColon(t, 2)
NamespaceBodyEnd(t) ==
    CHOOSE k \in NamespaceBodyStart(t)..(Len(t) + 1) :
        /\ \A i \in NamespaceBodyStart(t)..(k - 1) : t[i].kind = "Literal"
        /\ k <= Len(t) => t[k].kind # "Literal"
DependencyBodyStart(t) == AfterColon(t, NamespaceBodyEnd(t) + 1)

IsModulesThenDependencies(t) ==
    /\ Len(t) >= 2
    /\ t[1] = TModules
    /\ NamespaceBodyEnd(t) <= Len(t)
    /\ t[NamespaceBodyEnd(t)] = TDependencies
    /\ IsDependencyBody(t, DependencyBodyStart(t), FALSE)

NamespaceBody(t) == SubSeq(t, NamespaceBodyStart(t), NamespaceBodyEnd(t) - 1)
DependencyBody(t) == SubSeq(t, DependencyBodyStart(t), Len(t))

\* `dependencies [:] D modules [:] N` with the bodies of t
Reversed(t) ==
    SubSeq(t, NamespaceBodyEnd(t), DependencyBodyStart(t) - 1) \o DependencyBody(t)
    \o SubSeq(t, 1, NamespaceBodyStart(t) - 1) \o NamespaceBody(t)

\* C3: a directive `modules N dependencies D` ends as the directive
\* `dependencies D modules N` does: both fail, or both return the same
\* DependencySet and the same NamespaceSet.
C3_OrderIndependence ==
    (Final /\ IsModulesThenDependencies(tokens)) =>
        LET r == parse_import_stream(Reversed(tokens), windir)
        IN  /\ r.ok = (pc = "returned")
            /\ r.ok => result = <<r.dependencies, r.modules>>

C3_Witness ==
    /\ pc = "returned"
    /\ IsModulesThenDependencies(tokens)
    /\ NamespaceBody(tokens) # <<>>
    /\ DependencyBody(tokens) # <<>>
    /\ result[1] # {}
    /\ result[2] # {}

\* C4: a running set never loses an element from one state to the next, a
\* category may repeat before the other first appears, and the returned sets
\* are the unions of what the sections of their category returned.
C4_AccumulatedByUnion ==
    [][ /\ modules \subseteq modules'
        /\ dependencies \subseteq dependencies'
        /\ pc' = "returned" =>
              /\ result'[1] = UNION {sections'[i].set : i \in SectionsOf("Dependency")'}
              /\ result'[2] = UNION {sections'[i].set : i \in SectionsOf("Namespace")'}
      ]_vars

C4_Witness ==
    /\ pc = "returned"
    /\ Len(sections) >= 3
    /\ sections[1].category = "Namespace"
    /\ sections[2].category = "Namespace"
    /\ sections[1].set # {}
    /\ sections[2].set \notin {{}, sections[1].set}
    /\ result[2] = sections[1].set \cup sections[2].set

\* a directive of section keywords, colons and literals only: the keyword a
\* literal stands under is the last keyword before it
SectionKeywords == {TDependencies, TModules}

LiteralsOnly ==
    \A i \in 1..Len(tokens) :
        tokens[i] \in SectionKeywords \cup {TColon} \/ tokens[i].kind = "Literal"

KeywordOver(i) ==
    LET j == CHOOSE j \in 1..(i - 1) :
                 /\ tokens[j] \in SectionKeywords
                 /\ \A k \in (j + 1)..(i - 1) : tokens[k] \notin SectionKeywords
    IN  tokens[j]

LiteralsUnder(keyword) ==
    {i \in 2..Len(tokens) : tokens[i].kind = "Literal" /\ KeywordOver(i) = keyword}

Repeated(keyword) ==
    /\ Cardinality(LiteralsUnder(keyword)) >= 2
    /\ \A i, j \in LiteralsUnder(keyword) : tokens[i] = tokens[j]

TheLiteral(keyword) == tokens[CHOOSE i \in LiteralsUnder(keyword) : TRUE]

\* C5: in a directive that returns, a dependency literal repeated (within a
\* section or across sections) gives what one occurrence expands to, one
\* path when it names a descriptor file; a namespace literal repeated gives
\* one key.
C5_RepeatedLiteralCountsOnce ==
    (pc = "returned" /\ LiteralsOnly) =>
        /\ Repeated(TDependencies) =>
              LET p == trim_matches(TheLiteral(TDependencies).text)
              IN  /\ result[1] = expand_paths(p).set
                  /\ is_file(p) => result[1] = {p} /\ Cardinality(result[1]) = 1
        /\ Repeated(TModules) =>
              /\ namespace_literal_to_rough_namespace(TheLiteral(TModules).text) \in result[2]
              /\ Cardinality(result[2]) = 1

C5_Witness ==
    /\ pc = "returned"
    /\ LiteralsOnly
    /\ Repeated(TDependencies)
    /\ Repeated(TModules)
    /\ is_file(trim_matches(TheLiteral(TDependencies).text))
    /\ Cardinality(SectionsOf("Namespace")) >= 2
    /\ Cardinality(result[1]) = 1
    /\ Cardinality(result[2]) = 1

\* an `os` token that can only be a dependency item of a returning run
OsItems ==
    {i \in 2..Len(tokens) :
        /\ tokens[i] = TOs
        /\ tokens[i - 1] = TDependencies \/ tokens[i - 1].kind = "Literal"}

\* C6: a pair reaches the caller only from a run that returned, with no
\* error, every token consumed and no dependency item that fails (a path
\* that does not expand, `os` without windir); a failed run hands over
\* nothing, whatever it had accumulated, and takes no further step.
C6_AllOrNothing ==
    /\ result # NoResult =>
          /\ pc = "returned"
          /\ err = NoError
          /\ pos = Len(tokens)
          /\ result = <<dependencies, modules>>
          /\ OsItems # {} => windir # NoVar
          /\ LiteralsOnly =>
                \A i \in LiteralsUnder(TDependencies) :
                    expand_paths(trim_matches(tokens[i].text)).ok
    /\ pc = "failed" =>
          /\ result = NoResult
          /\ err # NoError
          /\ ~ENABLED Next

C6_Witness ==
    /\ pc = "failed"
    /\ err.kind \in {"ReadDir", "DirEntry", "NotFileOrDir"}
    /\ section # {}
    /\ result = NoResult

\* a regular file of the filesystem whose name ends in ".winmd"
DescriptorSuffix == <<PERIOD>> \o WINMD

IsDescriptorFile(p) ==
    /\ p \in Files
    /\ p \notin DOMAIN Dirs
    /\ Len(p) > Len(DescriptorSuffix)
    /\ SubSeq(p, Len(p) - Len(DescriptorSuffix) + 1, Len(p)) = DescriptorSuffix
    /\ p[Len(p) - Len(DescriptorSuffix)] # SEP

\* C7: every path of the running dependency set, of the set of the
\* dependencies section being parsed and of the returned DependencySet is an
\* existing regular file with the extension winmd, whichever item form
\* produced it.
C7_OnlyDescriptorFiles ==
    /\ \A p \in dependencies : IsDescriptorFile(p)
    /\ pc \in {"dependencies", "nuget", "failed"} => \A p \in section : IsDescriptorFile(p)
    /\ result # NoResult => \A p \in result[1] : IsDescriptorFile(p)

C7_Witness ==
    /\ pc = "returned"
    /\ \E i, j, k \in 1..Len(tokens) :
          /\ tokens[i] = TOs
          /\ tokens[j] = TNuget
          /\ tokens[k] = LitDir
    /\ Cardinality(result[1]) >= 3

\* C8: a namespace key is a fixed point of the normalizer, and normalizing
\* the text of the literal a modules section is about to take twice gives
\* what normalizing it once gives.
C8_NormalizationIdempotent ==
    /\ pc = "namespace" =>
          /\ \A k \in section : namespace_literal_to_rough_namespace(k) = k
          /\ peek(tokens, pos).kind = "Literal" =>
                namespace_literal_to_rough_namespace(
                    namespace_literal_to_rough_namespace(peek(tokens, pos).text))
                = namespace_literal_to_rough_namespace(peek(tokens, pos).text)
    /\ pc = "returned" =>
          \A k \in result[2] : namespace_literal_to_rough_namespace(k) = k

C8_Witness ==
    /\ pc = "returned"
    /\ tokens[2] = Literal(<<"A", UNDERSCORE, CapitalIDot>>)
    /\ result[2] = {<<"a", "i", CombiningDot>>}

MetaDescriptors == {<<"C", ":", "\\", "m", "e", "t", "a", "\\", "a", ".", "w", "i", "n", "m", "d">>, <<"C", ":", "\\", "m", "e", "t", "a", "\\", "c", ".", "w", "i", "n", "m", "d">>}

\* C9 as stated: Scenario A returns the descriptor files of C:\meta and the
\* namespace set {"windowsfoundation"}.
C9_ScenarioA_AsStated ==
    (tokens = ScenarioA /\ Final) =>
        /\ pc = "returned"
        /\ result = <<MetaDescriptors, {<<"w", "i", "n", "d", "o", "w", "s", "f", "o", "u", "n", "d", "a", "t", "i", "o", "n">>}>>

\* C9, amended: Scenario A returns the descriptor files of C:\meta and the
\* namespace set {"windows.foundation"}: the period is kept.
C9_ScenarioA ==
    (tokens = ScenarioA /\ Final) =>
        /\ pc = "returned"
        /\ result = <<MetaDescriptors, {<<"w", "i", "n", "d", "o", "w", "s", ".", "f", "o", "u", "n", "d", "a", "t", "i", "o", "n">>}>>

C9_Witness ==
    /\ tokens = ScenarioA
    /\ pc = "returned"
    /\ Len(sections) = 2

\* C10 as stated: the directive of Scenario B yields the namespace set
\* {"foobar"}.
C10_ScenarioB_AsStated ==
    (tokens = ScenarioB /\ Final) =>
        /\ pc = "returned"
        /\ result[2] = {<<"f", "o", "o", "b", "a", "r">>}

\* C10, amended: the modules section of Scenario B leaves the running
\* namespace set {"foobar"}, and the directive, having no dependencies
\* section, then fails at the end of input and returns nothing; with a
\* dependencies section after it the directive returns {"foobar"}.
C10_ScenarioB ==
    /\ (tokens = ScenarioB /\ Final) =>
          /\ pc = "failed"
          /\ err = Error("UnexpectedEnd", NoText)
          /\ modules = {<<"f", "o", "o", "b", "a", "r">>}
          /\ result = NoResult
    /\ (tokens = ScenarioBWithDependencies /\ Final) =>
          /\ pc = "returned"
          /\ result[2] = {<<"f", "o", "o", "b", "a", "r">>}

C10_Witness ==
    /\ tokens = ScenarioB
    /\ pc = "failed"
    /\ state = "ParsedNamespace"
    /\ modules = {<<"f", "o", "o", "b", "a", "r">>}

ContractsPath == <<"H", "\\", ".", "n", "u", "g", "e", "t", "\\", "M", "i", "c", "r", "o", "s", "o", "f", "t", "\\", "W", "i", "n", "d", "o", "w", "s", "\\", "S", "D", "K", "\\", "C", "o", "n", "t", "r", "a", "c", "t", "s">>
ContractsDescriptors == {<<"H", "\\", ".", "n", "u", "g", "e", "t", "\\", "M", "i", "c", "r", "o", "s", "o", "f", "t", "\\", "W", "i", "n", "d", "o", "w", "s", "\\", "S", "D", "K", "\\", "C", "o", "n", "t", "r", "a", "c", "t", "s", "\\", "s", "d", "k", ".", "w", "i", "n", "m", "d">>}

\* C11 as stated: the directive of Scenario C yields the expansion of
\* <home>/.nuget/Microsoft/Windows/SDK/Contracts as its dependency set.
C11_ScenarioC_AsStated ==
    (tokens = ScenarioC /\ Final) =>
        /\ pc = "returned"
        /\ result[1] = expand_paths(ContractsPath).set

\* C11, amended: the dependencies section of Scenario C leaves the running
\* dependency set at the expansion of <home>/.nuget/Microsoft/Windows/SDK/
\* Contracts, the segments nested in the order written, and the directive,
\* having no modules section, then fails at the end of input and returns
\* nothing; with a modules section after it the directive returns that set.
C11_ScenarioC ==
    /\ (tokens = ScenarioC /\ Final) =>
          /\ pc = "failed"
          /\ err = Error("UnexpectedEnd", NoText)
          /\ dependencies = ContractsDescriptors
          /\ dependencies = expand_paths(ContractsPath).set
          /\ result = NoResult
    /\ (tokens = ScenarioCWithModules /\ Final) =>
          /\ pc = "returned"
          /\ result[1] = ContractsDescriptors

C11_Witness ==
    /\ tokens = ScenarioC
    /\ pc = "failed"
    /\ state = "ParsedDependency"
    /\ dependencies = ContractsDescriptors

\* C12: Scenario D fails in parse_category on `extra_token`: the
\* dependencies section stops at it without consuming it, the state is
\* ParsedDependency, and the error is the unknown-keyword error citing
\* `extra_token`, not the trailing-input error.
C12_ScenarioD ==
    tokens = ScenarioD =>
        /\ (pc = "loop" /\ sections # <<>>) =>
              /\ pos = 3
              /\ peek(tokens, pos) = TExtra
              /\ state = "ParsedDependency"
              /\ dependencies = {<<"x", ".", "w", "i", "n", "m", "d">>}
        /\ Final =>
              /\ pc = "failed"
              /\ err = Error("UnknownKeyword", TExtra.text)
              /\ state = "ParsedDependency"
              /\ result = NoResult

C12_Witness ==
    /\ tokens = ScenarioD
    /\ pc = "failed"
    /\ err.kind = "UnknownKeyword"
    /\ pos = 4

\* the regular files directly under directory d with the extension winmd
DescriptorChildren(d) ==
    {p \in Files :
        /\ IsDescriptorFile(p)
        /\ Len(p) > Len(d) + 1
        /\ SubSeq(p, 1, Len(d) + 1) = d \o <<SEP>>
        /\ \A i \in (Len(d) + 2)..Len(p) : p[i] # SEP}

LiteralPath == trim_matches(peek(tokens, pos).text)

AtLiteralItem == pc = "dependencies" /\ peek(tokens, pos).kind = "Literal"

\* C13: a literal (or the `os` item) naming a readable directory adds exactly the regular
\* files directly under it with the extension winmd, and no error:
\* subdirectories, what is below them and other files are skipped, and a
\* directory without descriptor files adds nothing.
C13_DirectoryExpansion ==
    [][ /\ (/\ AtLiteralItem
            /\ is_dir(LiteralPath)
            /\ Dirs[LiteralPath].open = "ok") =>
               /\ pc' = "dependencies"
               /\ err' = NoError
               /\ pos' = pos + 1
               /\ section' = section \cup DescriptorChildren(LiteralPath)
        /\ (/\ pc = "dependencies"
            /\ peek(tokens, pos) = TOs
            /\ windir # NoVar
            /\ is_dir(os_path(windir))
            /\ Dirs[os_path(windir)].open = "ok") =>
               /\ pc' = "dependencies"
               /\ err' = NoError
               /\ section' = section \cup DescriptorChildren(os_path(windir))
      ]_vars

C13_Witness ==
    /\ pc = "dependencies"
    /\ pos > 0
    /\ tokens[pos] = LitDir
    /\ section = {<<"m", "\\", "a", ".", "w", "i", "n", "m", "d">>}

HasPrefix(s, prefix) ==
    Len(s) >= Len(prefix) /\ SubSeq(s, 1, Len(prefix)) = prefix

HasSuffix(s, suffix) ==
    Len(s) >= Len(suffix) /\ SubSeq(s, Len(s) - Len(suffix) + 1, Len(s)) = suffix

\* the errors raised on a token that next() returned, which is tokens[pos]
TokenCitingErrors == {"UnknownKeyword", "UnrecognizedToken", "TrailingInput"}
PathCitingErrors == {"NotFileOrDir", "ReadDir"}
FixedMessageErrors == {"UnexpectedEnd", "NugetColon", "NugetSegment", "NugetEnd",
                       "NoWindir", "DirEntry"}

\* the path expand_paths was given when it panicked: that of the literal or
\* `os` item at the cursor, or that of the `nuget` item just consumed
IsFailedPath(p) ==
    \/ peek(tokens, pos).kind = "Literal" /\ p = LiteralPath
    \/ peek(tokens, pos) = TOs /\ windir # NoVar /\ p = os_path(windir)
    \/ /\ pos >= 1
       /\ tokens[pos].kind = "Ident"
       /\ HasPrefix(p, nuget_root \o <<SEP>>)
       /\ HasSuffix(p, <<SEP>> \o tokens[pos].text)

\* the token a `nuget` item met where it wanted its colon, if there was one
MetInsteadOfColon == pos >= 2 /\ tokens[pos - 1] = TNuget

\* C14 as stated: every failure names the token or the path that caused
\* it (the failures at the end of input, where there is no token, and the
\* absent variable, which the message names, are left aside).
C14_ErrorsCite_AsStated ==
    pc = "failed" =>
        /\ err.kind \in TokenCitingErrors \cup {"NugetSegment"} =>
              err.text = tokens[pos].text
        /\ (err.kind = "NugetColon" /\ MetInsteadOfColon) =>
              err.text = tokens[pos].text
        /\ err.kind \in PathCitingErrors \cup {"DirEntry"} => err.text # NoText

\* C14, amended: the errors for an unknown section keyword, an unexpected
\* token kind and trailing input carry the offending token's text, and the
\* errors for a path that is neither file nor directory and for a directory
\* that cannot be read carry the path; the errors for the end of input, a
\* missing colon after `nuget`, a malformed segment list, an absent windir
\* and a failing directory entry are fixed messages without token or path.
C14_ErrorsCite ==
    pc = "failed" =>
        /\ err.kind \in TokenCitingErrors \cup PathCitingErrors \cup FixedMessageErrors
        /\ err.kind \in TokenCitingErrors => err.text = tokens[pos].text
        /\ err.kind \in PathCitingErrors => IsFailedPath(err.text)
        /\ err.kind \in FixedMessageErrors => err.text = NoText

C14_Witness ==
    /\ pc = "failed"
    /\ err = Error("NugetSegment", NoText)
    /\ tokens[pos].kind = "Literal"

\* C15: a literal whose path is not a directory adds the path itself when
\* it is a regular file with the extension winmd; otherwise (missing, other
\* or no extension, not a file) the run fails with the not-a-file-or-
\* directory error naming the path and returns nothing, whatever the items
\* before it gave.
C15_NotFileOrDirectory ==
    [][ (AtLiteralItem /\ ~is_dir(LiteralPath)) =>
            IF IsDescriptorFile(LiteralPath)
            THEN /\ pc' = "dependencies"
                 /\ err' = NoError
                 /\ section' = section \cup {LiteralPath}
            ELSE /\ pc' = "failed"
                 /\ err' = Error("NotFileOrDir", LiteralPath)
                 /\ result' = NoResult
      ]_vars

C15_Witness ==
    /\ pc = "failed"
    /\ err = Error("NotFileOrDir", <<"m", "\\", "b", ".", "t", "x", "t">>)
    /\ section = {<<"m", "\\", "a", ".", "w", "i", "n", "m", "d">>}
    /\ result = NoResult

\* the ParseState that the categories of the sections parsed so far give
StateOf(log) ==
    LET seen == {log[i].category : i \in 1..Len(log)}
    IN  IF seen = {} THEN "Neither"
        ELSE IF seen = {"Namespace"} THEN "ParsedNamespace"
        ELSE IF seen = {"Dependency"} THEN "ParsedDependency"
        ELSE "Both"

Transition ==
    [Namespace |-> [Neither |-> "ParsedNamespace", ParsedNamespace |-> "ParsedNamespace",
                    ParsedDependency |-> "Both", Both |-> "Both"],
     Dependency |-> [Neither |-> "ParsedDependency", ParsedNamespace |-> "Both",
                     ParsedDependency |-> "ParsedDependency", Both |-> "Both"]]

Rank == [Neither |-> 0, ParsedNamespace |-> 1, ParsedDependency |-> 1, Both |-> 2]

\* C16: the state changes only when a section ends, and then by the stated
\* transition function; it never moves backwards, Both is never left, and
\* the state is Both exactly when a section of each category has been parsed.
C16_ParseStateTransitions ==
    [][ /\ IF Len(sections') = Len(sections) + 1
           THEN state' = Transition[sections'[Len(sections')].category][state]
           ELSE state' = state
        /\ Rank[state] <= Rank[state']
        /\ state = "Both" => state' = "Both"
        /\ state' = StateOf(sections')
        /\ (state' = "Both") <=>
              (SectionsOf("Namespace")' # {} /\ SectionsOf("Dependency")' # {})
      ]_vars

C16_Witness ==
    /\ state = "Both"
    /\ Len(sections) >= 3
    /\ sections[1].category = "Dependency"
    /\ sections[2].category = "Dependency"
    /\ sections[3].category = "Namespace"

ColonFollows == pos + 2 <= Len(tokens) /\ tokens[pos + 2] = TColon

\* what is left of the cursor after p tokens
Remaining(p) == SubSeq(tokens, p + 1, Len(tokens))

\* C17: a successful parse_category consumes the keyword and, exactly when
\* the token after it is ':', that one colon; what follows (a second colon
\* included) stays in the cursor and nothing else of the parse changes, so a
\* section with and without the colon hands the same tokens to its parser.
C17_ClassifierCursor ==
    [][ (pc = "loop" /\ state # "Both" /\ pc' # "failed") =>
            /\ tokens[pos + 1] \in SectionKeywords
            /\ pc' = IF tokens[pos + 1] = TModules THEN "namespace" ELSE "dependencies"
            /\ pos' = IF ColonFollows THEN pos + 2 ELSE pos + 1
            /\ Remaining(pos') = IF ColonFollows THEN Tail(Remaining(pos + 1))
                                 ELSE Remaining(pos + 1)
            /\ UNCHANGED <<tokens, windir, state, dependencies, modules, section,
                           path, sections, err, result>>
      ]_vars

C17_Witness ==
    /\ pc = "namespace"
    /\ pos = 2
    /\ tokens[1] = TModules
    /\ tokens[2] = TColon
    /\ Len(tokens) >= 3
    /\ tokens[3] = TColon

\* C18: `nuget` not followed by ':' fails; after the colon each step takes
\* one identifier as a segment, nested under the path so far, which starts
\* at <home>/.nuget; a period after a segment is consumed and another segment
\* is required; a non-identifier or the end of input where a segment is due
\* fails; the first token after a segment that is not a period is left in
\* the cursor and the assembled path is expanded.
C18_NugetItem ==
    [][ /\ (pc = "dependencies" /\ peek(tokens, pos) = TNuget) =>
              IF ColonFollows
              THEN /\ pc' = "nuget"
                   /\ pos' = pos + 2
                   /\ path' = HOME \o <<SEP>> \o DOT_NUGET
                   /\ section' = section
              ELSE /\ pc' = "failed"
                   /\ err'.kind = "NugetColon"
        /\ pc = "nuget" =>
              IF pos >= Len(tokens)
              THEN pc' = "failed" /\ err'.kind = "NugetEnd"
              ELSE IF tokens[pos + 1].kind # "Ident"
              THEN pc' = "failed" /\ err'.kind = "NugetSegment"
              ELSE IF pos + 2 <= Len(tokens) /\ tokens[pos + 2] = TPeriod
              THEN /\ pc' = "nuget"
                   /\ pos' = pos + 2
                   /\ path' = path \o <<SEP>> \o tokens[pos + 1].text
                   /\ section' = section
              ELSE /\ pos' = pos + 1
                   /\ LET assembled == path \o <<SEP>> \o tokens[pos + 1].text
                      IN  IF expand_paths(assembled).ok
                          THEN /\ pc' = "dependencies"
                               /\ section' = section \cup expand_paths(assembled).set
                          ELSE /\ pc' = "failed"
                               /\ err' = expand_paths(assembled).err
      ]_vars

C18_Witness ==
    /\ tokens = ScenarioC
    /\ pc = "dependencies"
    /\ pos = Len(tokens)
    /\ section = ContractsDescriptors

StartsDependencyItem(t) == t.kind = "Literal" \/ t = TOs \/ t = TNuget

\* C19: a modules section ends at the first token that is not a literal, a
\* dependencies section at the first token that starts no item, and at the
\* end of input; the section returns with that token still next in the
\* cursor, and the loop then takes it for a keyword or for trailing input.
C19_SectionsEndWithoutConsuming ==
    [][ /\ pc = "namespace" =>
              IF peek(tokens, pos).kind = "Literal"
              THEN pc' = "namespace" /\ pos' = pos + 1
              ELSE pc' = "loop" /\ pos' = pos /\ Len(sections') = Len(sections) + 1
        /\ (pc = "dependencies" /\ ~StartsDependencyItem(peek(tokens, pos))) =>
              pc' = "loop" /\ pos' = pos /\ Len(sections') = Len(sections) + 1
        /\ (pc = "dependencies" /\ StartsDependencyItem(peek(tokens, pos))) =>
              pc' # "loop" /\ Len(sections') = Len(sections)
        /\ (pc = "loop" /\ sections # <<>> /\ pos < Len(tokens) /\ pc' = "failed") =>
              err'.text = tokens[pos + 1].text
      ]_vars

C19_Witness ==
    /\ pc = "loop"
    /\ Len(sections) = 1
    /\ sections[1].category = "Namespace"
    /\ pos >= 2
    /\ tokens[pos].kind = "Literal"
    /\ peek(tokens, pos) = TDependencies

\* twice the tokens left, plus one inside a section; below zero at the end
Variant ==
    IF Final THEN -1
    ELSE 2 * (Len(tokens) - pos) + (IF pc = "loop" THEN 0 ELSE 1)

\* C20: every step consumes a token or ends the loop it is in, so the
\* variant falls with every step, and every run reaches a return or a
\* failure.
C20_Termination ==
    /\ [][Variant' < Variant]_vars
    /\ <>Final

C20_Witness ==
    /\ pc = "returned"
    /\ Len(tokens) >= 7
    /\ Len(sections) = 2
    /\ \E i \in 1..Len(tokens) : tokens[i] = TNuget

====
